---- MODULE Spec2Model ----
(***************************************************************************)
(* Model of streamlit_app.py: a Streamlit page that runs a two-node        *)
(* LangGraph workflow (agent -> should_continue -> action -> agent ...)    *)
(* over an article and copies the returned messages into a session         *)
(* history.                                                                *)
(*                                                                         *)
(* Texts are sequences of one-character strings so that lower() and the    *)
(* substring test of should_continue are computed, not assumed.            *)
(*                                                                         *)
(* The remote services are inputs: each agent step draws a response of     *)
(* the generation service, each action step draws a result of the search   *)
(* service.  Network failures of the two services are outside the model.   *)
(***************************************************************************)
EXTENDS Integers, Sequences, FiniteSets, TLC

(***************************************************************************)
(* Bounds of the model                                                     *)
(***************************************************************************)
\* number of Analyze runs explored in one session
MaxRuns == 2

(***************************************************************************)
(* Program constants                                                       *)
(***************************************************************************)
\* app.invoke(inputs) is called without a config, so the compiled graph runs
\* under LangGraph's default recursion_limit of 25 super-steps.
RecursionLimit == 25

(***************************************************************************)
(* Characters and texts                                                    *)
(***************************************************************************)
(* "ABCDEFGHIJKLMNOPQRSTUVWXYZ" *)
UpperLetters ==
    << "A", "B", "C", "D", "E", "F", "G", "H", "I", "J", "K", "L", "M",
       "N", "O", "P", "Q", "R", "S", "T", "U", "V", "W", "X", "Y", "Z" >>

(* "abcdefghijklmnopqrstuvwxyz" *)
LowerLetters ==
    << "a", "b", "c", "d", "e", "f", "g", "h", "i", "j", "k", "l", "m",
       "n", "o", "p", "q", "r", "s", "t", "u", "v", "w", "x", "y", "z" >>

\* the literal tested by should_continue
(* "search" *)
Keyword ==
    << "s", "e", "a", "r", "c", "h" >>

\* the literal substituted by agent_node
(* "No valid response received." *)
Placeholder ==
    << "N", "o", " ", "v", "a", "l", "i", "d", " ", "r", "e", "s", "p",
       "o", "n", "s", "e", " ", "r", "e", "c", "e", "i", "v", "e", "d", "." >>

\* the name given to the FunctionMessage by action_node
ToolName == "TavilySearch"

\* texts the generation service may return
(* "All good." *)
TxtPlain ==
    << "A", "l", "l", " ", "g", "o", "o", "d", "." >>

(* "I need to search for current rates" *)
TxtNeedSearch ==
    << "I", " ", "n", "e", "e", "d", " ", "t", "o", " ", "s", "e", "a",
       "r", "c", "h", " ", "f", "o", "r", " ", "c", "u", "r", "r", "e",
       "n", "t", " ", "r", "a", "t", "e", "s" >>

(* "SEARCH it" *)
TxtUpper ==
    << "S", "E", "A", "R", "C", "H", " ", "i", "t" >>

(* "ReSeArch" *)
TxtMixed ==
    << "R", "e", "S", "e", "A", "r", "c", "h" >>

(* "sear ch" *)
TxtNear ==
    << "s", "e", "a", "r", " ", "c", "h" >>

TxtEmpty == << >>

\* snippets the search service may return
(* "rates 3%" *)
SnipRates ==
    << "r", "a", "t", "e", "s", " ", "3", "%" >>

(* "search hit" *)
SnipSearch ==
    << "s", "e", "a", "r", "c", "h", " ", "h", "i", "t" >>

\* articles typed into the text area
(* "Card X gives 3 miles" *)
ArtCards ==
    << "C", "a", "r", "d", " ", "X", " ", "g", "i", "v", "e", "s", " ",
       "3", " ", "m", "i", "l", "e", "s" >>

(* "search engines" *)
ArtSearch ==
    << "s", "e", "a", "r", "c", "h", " ", "e", "n", "g", "i", "n", "e", "s" >>

Texts == {TxtPlain, TxtNeedSearch, TxtUpper, TxtMixed, TxtNear, TxtEmpty, Placeholder}

Articles == {TxtEmpty, ArtCards, ArtSearch}

\* the search service returns a list of documents (here: of their snippets)
SearchResults == {<< >>, <<SnipRates>>, <<SnipSearch, SnipRates>>}

(***************************************************************************)
(* Pure helpers: str.lower(), the `in` substring test, str(list)           *)
(***************************************************************************)
LowerChar(c) ==
    IF \E i \in 1..Len(UpperLetters) : UpperLetters[i] = c
    THEN LowerLetters[CHOOSE i \in 1..Len(UpperLetters) : UpperLetters[i] = c]
    ELSE c

\* str.lower(): every cased character replaced by its lowercase form
Lower(t) == [i \in 1..Len(t) |-> LowerChar(t[i])]

\* Python's `sub in t` on strings
Contains(sub, t) ==
    \E i \in 1..(Len(t) - Len(sub) + 1) : SubSeq(t, i, i + Len(sub) - 1) = sub

RECURSIVE JoinDocs(_)
JoinDocs(docs) ==
    IF docs = << >> THEN << >>
    ELSE IF Len(docs) = 1 THEN <<"'">> \o docs[1] \o <<"'">>
    ELSE <<"'">> \o docs[1] \o <<"'", ",", " ">> \o JoinDocs(Tail(docs))

\* str(result) of the list returned by the retriever
Str(docs) == <<"[">> \o JoinDocs(docs) \o <<"]">>

(***************************************************************************)
(* Messages                                                                *)
(***************************************************************************)
AIMessage(text) == [type |-> "ai", content |-> text, name |-> ""]

FunctionMessage(text, toolname) == [type |-> "function", content |-> text, name |-> toolname]

\* isinstance(m, AIMessage)
IsAIMessage(m) == m.type = "ai"

(***************************************************************************)
(* Responses of the generation service, as agent_node probes them          *)
(***************************************************************************)
TextBlock(t) == [type |-> "text", has_text |-> TRUE, text |-> t]

ToolUseBlock == [type |-> "tool_use", has_text |-> FALSE, text |-> << >>]

NoResponse == [present |-> FALSE, content |-> << >>]

Responses ==
    {NoResponse, [present |-> TRUE, content |-> << >>],
     [present |-> TRUE, content |-> <<ToolUseBlock>>]}
    \cup {[present |-> TRUE, content |-> <<TextBlock(t)>>] : t \in Texts}
    \cup {[present |-> TRUE, content |-> <<TextBlock(TxtNeedSearch), ToolUseBlock>>]}

\* response and response.content and hasattr(response.content[0], 'text')
HasText(response) ==
    /\ response.present
    /\ response.content # << >>
    /\ response.content[1].has_text

\* variant: the else branch yields an empty text instead of the placeholder
TextContent_EmptyFallback(response) ==
    IF HasText(response) THEN response.content[1].text ELSE << >>

\* text_content as computed by agent_node
TextContent(response) ==
    IF HasText(response) THEN response.content[1].text ELSE Placeholder

(***************************************************************************)
(* The graph                                                               *)
(***************************************************************************)
\* State declares `messages` without a reducer annotation, so the value a
\* node returns for the key replaces the value held by the state.
UpdateMessages(old, update) == update

\* variant: the value returned by the node becomes the whole state
ApplyUpdate_DropArticle(st, update) ==
    [messages |-> UpdateMessages(st.messages, update.messages), article |-> << >>]

\* a node's return value is merged into the state key by key: the nodes
\* return only `messages`, so `article` keeps its value
ApplyUpdate(st, update) ==
    [messages |-> UpdateMessages(st.messages, update.messages), article |-> st.article]

\* article = state['article'], embedded in the prompt of agent_node
PromptArticle(st) == st.article

\* inputs of app.invoke
Inputs(article) == [messages |-> << >>, article |-> article]

\* return value of agent_node
agent_node(state, response) == [messages |-> <<AIMessage(TextContent(response))>>]

\* variant: the article is sent as the query
Query_Article(state) == state.article

\* query sent by action_node
Query(state) == state.messages[Len(state.messages)].content

\* return value of action_node
action_node(state, docs) == [messages |-> <<FunctionMessage(Str(docs), ToolName)>>]

\* variant: the content is tested without lower()
should_continue_NoLower(state) ==
    LET last_message == state.messages[Len(state.messages)]
    IN  IF IsAIMessage(last_message) /\ Contains(Keyword, last_message.content)
        THEN "continue"
        ELSE "end"

should_continue(state) ==
    LET last_message == state.messages[Len(state.messages)]
    IN  IF IsAIMessage(last_message) /\ Contains(Keyword, Lower(last_message.content))
        THEN "continue"
        ELSE "end"

\* variant: the two targets of the mapping are swapped
ConditionalEdge_Swapped(decision) == IF decision = "continue" THEN "END" ELSE "action"

\* add_conditional_edges("agent", should_continue, {...})
ConditionalEdge(decision) == IF decision = "continue" THEN "action" ELSE "END"

\* variant: the action node leads to END
EdgeFromAction_End == "END"

\* add_edge("action", "agent")
EdgeFromAction == "agent"

\* variant: the graph is entered at the action node
EntryPoint_Action == "action"

\* set_entry_point("agent")
EntryPoint == "agent"

(***************************************************************************)
(* State                                                                   *)
(***************************************************************************)
VARIABLES
    pc,             \* "startup", "halted", "idle", "running"
    keys,           \* the two secrets read at startup
    built,          \* objects constructed at startup: client, tool, graph
    chat_history,   \* st.session_state.chat_history
    session_article,\* st.session_state.article
    notice,         \* last st.error / st.success banner
    state,          \* the graph's state: messages and article
    node,           \* next node of the graph: agent, router, action, END, none
    step,           \* super-steps executed in the current run
    outcome,        \* how the last run stopped: none, END, GraphRecursionError
    result,         \* messages of the value returned by app.invoke
    runs,           \* Analyze runs started
    calls           \* history variables of the current run

vars == <<pc, keys, built, chat_history, session_article, notice, state, node,
          step, outcome, result, runs, calls>>

NoCalls ==
    [agent      |-> 0,           \* agent_node invocations
     fetch      |-> 0,           \* action_node invocations
     router     |-> 0,           \* should_continue evaluations
     first_text |-> << >>,       \* text of the first agent_node output
     last_text  |-> << >>,       \* text of the latest agent_node output
     last_resp  |-> NoResponse,  \* response the latest agent_node received
     inspected  |-> << >>,       \* text should_continue last inspected
     decision   |-> "none",      \* value should_continue last returned
     query      |-> << >>,       \* query of the latest search
     pending    |-> 0,           \* searches since should_continue last ran
     input      |-> << >>,       \* article the run was started with
     prompts    |-> {},          \* articles embedded in the prompts of the run
     last_node  |-> "none"]      \* node that ran last

KeyValues == {"", "sk"}

\* variant: the check fires only when both keys are empty
KeysMissing_Both(k) == k.tavily = "" /\ k.claude = ""

\* not tavily_api_key or not claude_api_key
KeysMissing(k) == k.tavily = "" \/ k.claude = ""

Init ==
    /\ pc = "startup"
    /\ keys \in [tavily : KeyValues, claude : KeyValues]
    /\ built = {}
    /\ chat_history = << >>
    /\ session_article = << >>
    /\ notice = "none"
    /\ state = [messages |-> << >>, article |-> << >>]
    /\ node = "none"
    /\ step = 0
    /\ outcome = "none"
    /\ result = << >>
    /\ runs = 0
    /\ calls = NoCalls

(***************************************************************************)
(* Startup                                                                 *)
(***************************************************************************)
\* the key check: st.error + st.stop() when a key is empty
Halt ==
    /\ pc = "startup"
    /\ KeysMissing(keys)
    /\ pc' = "halted"
    /\ notice' = "error: API keys must be set"
    /\ UNCHANGED <<keys, built, chat_history, session_article, state, node,
                   step, outcome, result, runs, calls>>

\* client, search tool and compiled graph are constructed
Build ==
    /\ pc = "startup"
    /\ ~KeysMissing(keys)
    /\ built' = {"client", "tool", "graph"}
    /\ pc' = "idle"
    /\ UNCHANGED <<keys, chat_history, session_article, notice, state, node,
                   step, outcome, result, runs, calls>>

(***************************************************************************)
(* Analyze Article                                                         *)
(***************************************************************************)
\* st.error banner of the Analyze Article handler
EmptyArticleNotice == "error: Please input an article first."

\* variant: the article is stored in the session before it is tested
AnalyzeEmpty_StoresArticle(article) ==
    /\ pc = "idle"
    /\ article = << >>
    /\ session_article' = article
    /\ notice' = EmptyArticleNotice
    /\ UNCHANGED <<pc, keys, built, chat_history, state, node,
                   step, outcome, result, runs, calls>>

\* button pressed with an empty text area
AnalyzeEmpty(article) ==
    /\ pc = "idle"
    /\ article = << >>
    /\ notice' = EmptyArticleNotice
    /\ UNCHANGED <<pc, keys, built, chat_history, session_article, state, node,
                   step, outcome, result, runs, calls>>

\* button pressed with an article: app.invoke(inputs) starts
AnalyzeStart(article) ==
    /\ pc = "idle"
    /\ article # << >>
    /\ runs < MaxRuns
    /\ session_article' = article
    /\ state' = Inputs(session_article')
    /\ node' = EntryPoint
    /\ step' = 0
    /\ outcome' = "none"
    /\ result' = << >>
    /\ runs' = runs + 1
    /\ calls' = [NoCalls EXCEPT !.input = article]
    /\ notice' = "none"
    /\ pc' = "running"
    /\ UNCHANGED <<keys, built, chat_history>>

\* one super-step running agent_node on a response of the generation service
AgentStep(response) ==
    /\ pc = "running"
    /\ node = "agent"
    /\ step < RecursionLimit
    /\ state' = ApplyUpdate(state, agent_node(state, response))
    /\ step' = step + 1
    /\ node' = "router"
    /\ calls' = [calls EXCEPT
                   !.agent = @ + 1,
                   !.first_text = IF calls.agent = 0 THEN TextContent(response) ELSE @,
                   !.last_text = TextContent(response),
                   !.last_resp = response,
                   !.prompts = @ \cup {PromptArticle(state)},
                   !.last_node = "agent"]
    /\ UNCHANGED <<pc, keys, built, chat_history, session_article, notice,
                   outcome, result, runs>>

\* the conditional edge leaving agent: should_continue picks the next node
Router ==
    /\ pc = "running"
    /\ node = "router"
    /\ node' = ConditionalEdge(should_continue(state))
    /\ calls' = [calls EXCEPT
                   !.router = @ + 1,
                   !.inspected = state.messages[Len(state.messages)].content,
                   !.decision = should_continue(state),
                   !.pending = 0,
                   !.last_node = "router"]
    /\ UNCHANGED <<pc, keys, built, chat_history, session_article, notice, state,
                   step, outcome, result, runs>>

\* one super-step running action_node on a result of the search service
ActionStep(docs) ==
    /\ pc = "running"
    /\ node = "action"
    /\ step < RecursionLimit
    /\ state' = ApplyUpdate(state, action_node(state, docs))
    /\ step' = step + 1
    /\ node' = EdgeFromAction
    /\ calls' = [calls EXCEPT
                   !.fetch = @ + 1,
                   !.query = Query(state),
                   !.pending = @ + 1,
                   !.last_node = "action"]
    /\ UNCHANGED <<pc, keys, built, chat_history, session_article, notice,
                   outcome, result, runs>>

\* a node is still due after recursion_limit super-steps: app.invoke raises
\* GraphRecursionError, which leaves the handler before anything is shown
RecursionError ==
    /\ pc = "running"
    /\ node \in {"agent", "action"}
    /\ step >= RecursionLimit
    /\ outcome' = "GraphRecursionError"
    /\ node' = "none"
    /\ pc' = "idle"
    /\ UNCHANGED <<keys, built, chat_history, session_article, notice, state,
                   step, result, runs, calls>>

\* chat_history entry appended for one message of the result
HistoryEntry(message) == [role |-> message.type, content |-> message.content]

\* variant: the history is assigned the entries of this run
HistoryAfterRun_Replace(history, messages) ==
    [i \in 1..Len(messages) |-> HistoryEntry(messages[i])]

\* chat_history after the loop over result['messages']: one append per message
HistoryAfterRun(history, messages) ==
    history \o [i \in 1..Len(messages) |-> HistoryEntry(messages[i])]

\* the graph reached END: app.invoke returns the state, every message of
\* result['messages'] is written to the page and appended to chat_history
Display ==
    /\ pc = "running"
    /\ node = "END"
    /\ result' = state.messages
    /\ chat_history' = HistoryAfterRun(chat_history, state.messages)
    /\ outcome' = "END"
    /\ node' = "none"
    /\ pc' = "idle"
    /\ UNCHANGED <<keys, built, session_article, notice, state, step, runs, calls>>

\* st.success banner of the Clear History handler
ClearedNotice == "success: History cleared and article removed."

(***************************************************************************)
(* Clear History                                                           *)
(***************************************************************************)
ClearHistory ==
    /\ pc = "idle"
    /\ chat_history' = << >>
    /\ session_article' = << >>
    /\ notice' = ClearedNotice
    /\ UNCHANGED <<pc, keys, built, state, node, step, outcome, result, runs, calls>>

Next ==
    \/ Halt
    \/ Build
    \/ \E article \in Articles : AnalyzeEmpty(article)
    \/ \E article \in Articles : AnalyzeStart(article)
    \/ \E response \in Responses : AgentStep(response)
    \/ Router
    \/ \E docs \in SearchResults : ActionStep(docs)
    \/ RecursionError
    \/ Display
    \/ ClearHistory

Spec == Init /\ [][Next]_vars

(***************************************************************************)
(* Helpers of the properties                                               *)
(***************************************************************************)
\* a and b are the same letter up to case
SameLetter(a, b) ==
    \/ a = b
    \/ \E k \in 1..Len(UpperLetters) : {a, b} = {UpperLetters[k], LowerLetters[k]}

\* kw occurs in t, compared letter by letter ignoring case
OccursCI(kw, t) ==
    \E i \in 1..(Len(t) - Len(kw) + 1) :
        \A j \in 1..Len(kw) : SameLetter(t[i + j - 1], kw[j])

IsStrictPrefix(s, t) == Len(s) < Len(t) /\ SubSeq(t, 1, Len(s)) = s

IsToolResult(m) == m.type = "function"

\* a run of the graph has stopped
RunStopped == pc = "idle" /\ outcome # "none"

\* the response gives agent_node no text to extract
NoExtractableText(r) ==
    \/ ~r.present
    \/ Len(r.content) = 0
    \/ ~r.content[1].has_text

(***************************************************************************)
(* C1: every run of app.invoke stops by reaching END (within a bounded     *)
(* number of agent_node calls).  Fails: nothing in the program bounds the  *)
(* loop, and an Analyzer that keeps answering with "search" drives the     *)
(* run into GraphRecursionError instead of END.                            *)
(***************************************************************************)
C1_RunReachesEnd == RunStopped => outcome = "END"

(***************************************************************************)
(* C2: the message sequence is append-only: across every agent_node and    *)
(* action_node step the old sequence is a strict prefix of the new one     *)
(* and the length grows by exactly one.  Fails: the node's return value    *)
(* replaces the sequence.                                                  *)
(***************************************************************************)
C2_AppendOnly ==
    [][(pc = "running" /\ step' = step + 1) =>
          /\ IsStrictPrefix(state.messages, state'.messages)
          /\ Len(state'.messages) = Len(state.messages) + 1]_vars

(***************************************************************************)
(* C3: a non-empty message sequence starts with a Generated (AIMessage)    *)
(* message, never with a ToolResult.  Fails after action_node.             *)
(***************************************************************************)
C3_FirstIsGenerated ==
    state.messages # << >> => IsAIMessage(state.messages[1])

(***************************************************************************)
(* C4: a run with n Evidence Fetcher calls returns n+1 Generated and n     *)
(* ToolResult messages, all of them appended to chat_history.  Fails as    *)
(* soon as n > 0: only the last Generated message is returned.             *)
(***************************************************************************)
C4_DisplayReceivesAll ==
    outcome = "END" =>
        /\ Len(result) = 2 * calls.fetch + 1
        /\ Cardinality({i \in 1..Len(result) : IsAIMessage(result[i])}) = calls.fetch + 1
        /\ Cardinality({i \in 1..Len(result) : IsToolResult(result[i])}) = calls.fetch
        /\ Len(chat_history) >= Len(result)

(***************************************************************************)
(* C5: should_continue returns "continue" exactly when "search" occurs,    *)
(* ignoring case, in the text agent_node just generated, "end" otherwise,  *)
(* and evaluating it changes neither the graph state nor the session.      *)
(***************************************************************************)
C5_RouterInv ==
    calls.last_node = "router" =>
        /\ calls.inspected = calls.last_text
        /\ calls.decision \in {"continue", "end"}
        /\ (calls.decision = "continue") <=> OccursCI(Keyword, calls.last_text)

C5_RouterDecision ==
    /\ []C5_RouterInv
    /\ [][calls'.router = calls.router + 1 =>
             /\ state' = state
             /\ chat_history' = chat_history
             /\ session_article' = session_article
             /\ result' = result]_vars

C5_Witness ==
    /\ calls.last_node = "router"
    /\ calls.last_text = TxtMixed
    /\ calls.decision = "continue"

(***************************************************************************)
(* C6: after should_continue returns "continue", action_node runs exactly  *)
(* once before the next agent_node call, and its query is the text of the  *)
(* Generated message should_continue just inspected.  (A run cut short by  *)
(* the recursion limit has no next agent_node call.)                       *)
(***************************************************************************)
C6_QueryInv ==
    /\ calls.last_node = "action" =>
          /\ calls.query = calls.inspected
          /\ calls.query = calls.last_text
          /\ calls.decision = "continue"
          /\ calls.pending = 1
    /\ (pc = "running" /\ calls.last_node = "router" /\ calls.decision = "continue") =>
          node = "action"

C6_FetchOncePerContinue ==
    /\ []C6_QueryInv
    /\ [][(calls'.agent = calls.agent + 1 /\ calls.agent > 0) =>
             (calls.decision = "continue" /\ calls.pending = 1)]_vars

C6_Witness ==
    /\ calls.last_node = "action"
    /\ calls.fetch = 2
    /\ calls.query = TxtUpper
    /\ calls.first_text = TxtNeedSearch

(***************************************************************************)
(* C7: when a run stops at END, the last message of the returned sequence  *)
(* is the AIMessage produced by the latest agent_node call.                *)
(***************************************************************************)
C7_FinalIsLastGenerated ==
    outcome = "END" =>
        /\ result # << >>
        /\ result[Len(result)] = AIMessage(calls.last_text)
        /\ calls.last_text = TextContent(calls.last_resp)

C7_Witness ==
    /\ outcome = "END"
    /\ calls.agent = 2
    /\ calls.first_text = TxtNeedSearch
    /\ calls.last_text = TxtPlain

C9_StopsAfterOneCall ==
    (calls.agent >= 1 /\ ~OccursCI(Keyword, calls.first_text)) =>
        /\ calls.agent = 1
        /\ calls.fetch = 0
        /\ calls.router <= 1
        /\ node \in {"router", "END", "none"}
        /\ calls.router = 1 => (calls.decision = "end" /\ node \in {"END", "none"})
        /\ outcome \in {"none", "END"}
        /\ RunStopped => (calls.router = 1 /\ outcome = "END")

C9_Witness ==
    /\ outcome = "END"
    /\ calls.first_text = TxtNear
    /\ calls.agent = 1
    /\ calls.fetch = 0

(***************************************************************************)
(* C10: a response without extractable text makes agent_node produce an    *)
(* AIMessage holding exactly the placeholder; should_continue is applied   *)
(* to it like to any text, returns "end", and the run stops at END         *)
(* without a search.                                                       *)
(***************************************************************************)
C10_PlaceholderOnNoText ==
    (calls.agent >= 1 /\ NoExtractableText(calls.last_resp)) =>
        /\ calls.last_text = Placeholder
        /\ calls.last_node = "agent" =>
              state.messages = <<AIMessage(Placeholder)>> /\ node = "router"
        /\ calls.last_node = "router" =>
              /\ calls.inspected = Placeholder
              /\ calls.decision = "end"
              /\ node \in {"END", "none"}
              /\ calls.router = calls.agent
              /\ calls.pending = 0
        /\ outcome \in {"none", "END"}
        /\ outcome = "END" => result[Len(result)].content = Placeholder

C10_Witness ==
    /\ outcome = "END"
    /\ calls.last_resp = [present |-> TRUE, content |-> <<ToolUseBlock>>]
    /\ calls.fetch = 1
    /\ result = <<AIMessage(Placeholder)>>

(***************************************************************************)
(* C11: when either key is an empty string the script halts at the key     *)
(* check: the client, the search tool and the graph are never constructed, *)
(* no run is started and neither service is ever called.                   *)
(***************************************************************************)
C11_HaltBeforeServices ==
    (keys.tavily = "" \/ keys.claude = "") =>
        /\ pc \in {"startup", "halted"}
        /\ built = {}
        /\ runs = 0
        /\ node = "none"
        /\ calls.agent = 0 /\ calls.fetch = 0 /\ calls.router = 0

C11_Witness ==
    /\ pc = "halted"
    /\ keys.tavily = "sk"
    /\ keys.claude = ""
    /\ built = {}

IsPrefix(s, t) == Len(s) <= Len(t) /\ SubSeq(t, 1, Len(s)) = s

(***************************************************************************)
(* C12: chat_history persists across runs: every step other than Clear     *)
(* History leaves the old history as a prefix of the new one, a run that   *)
(* returns appends one entry per result message in order, and the only     *)
(* step that shrinks the list is Clear History, which empties chat_history *)
(* and the stored article.                                                 *)
(***************************************************************************)
C12_HistoryPersists ==
    [][/\ ~IsPrefix(chat_history, chat_history') =>
             /\ pc = "idle" /\ pc' = "idle"
             /\ notice' = ClearedNotice
             /\ chat_history' = << >>
             /\ session_article' = << >>
       /\ (pc = "running" /\ outcome' = "END") =>
             /\ Len(chat_history') = Len(chat_history) + Len(result')
             /\ \A i \in 1..Len(result') :
                    chat_history'[Len(chat_history) + i] =
                        [role |-> result'[i].type, content |-> result'[i].content]
       /\ (notice' = ClearedNotice /\ notice # ClearedNotice) =>
             (chat_history' = << >> /\ session_article' = << >>)]_vars

C12_Witness ==
    /\ runs = 2
    /\ outcome = "END"
    /\ Len(chat_history) = 2
    /\ chat_history[1].content = Placeholder
    /\ chat_history[2].content = TxtPlain

(***************************************************************************)
(* C13: in a single run the Evidence Fetcher is invoked at most once and   *)
(* the Analyzer at most twice.  Fails: the loop repeats for as long as the *)
(* generated text contains "search".                                       *)
(***************************************************************************)
C13_OneRetryBound == calls.fetch <= 1 /\ calls.agent <= 2

(***************************************************************************)
(* C14: the service calls of a run alternate agent_node, action_node,      *)
(* agent_node, ...: the run starts with agent_node; action_node runs only  *)
(* right after a should_continue that returned "continue" on the latest    *)
(* agent_node output and is followed by agent_node; should_continue runs   *)
(* after every agent_node call and never after action_node; a stopped run  *)
(* has made one agent_node call more than action_node calls.               *)
(***************************************************************************)
C14_AlternationInv ==
    /\ calls.agent = 0 => (calls.fetch = 0 /\ calls.router = 0 /\ calls.last_node = "none")
    /\ calls.last_node = "agent" =>
          /\ calls.fetch = calls.agent - 1
          /\ calls.router = calls.agent - 1
          /\ node = "router"
    /\ calls.last_node = "router" =>
          /\ calls.fetch = calls.agent - 1
          /\ calls.router = calls.agent
    /\ calls.last_node = "action" =>
          /\ calls.fetch = calls.agent
          /\ calls.router = calls.agent
          /\ calls.decision = "continue"
          /\ calls.inspected = calls.last_text
          /\ pc = "running" /\ node = "agent" /\ step < RecursionLimit
    /\ RunStopped =>
          /\ calls.last_node = "router"
          /\ calls.agent = calls.fetch + 1

C14_StrictAlternation ==
    /\ []C14_AlternationInv
    /\ [][/\ calls'.fetch = calls.fetch + 1 =>
                (calls.last_node = "router" /\ calls.decision = "continue")
          /\ calls'.router = calls.router + 1 => calls.last_node = "agent"
          /\ (calls'.agent = calls.agent + 1) => calls.last_node \in {"none", "action"}
          /\ (pc = "running" /\ calls.last_node = "action" /\ calls' # calls) =>
                calls'.last_node = "agent"]_vars

C14_Witness ==
    /\ outcome = "END"
    /\ calls.agent = 3
    /\ calls.fetch = 2
    /\ calls.router = 3

(***************************************************************************)
(* C15: the article of the graph state is set once, by the caller, and     *)
(* no step of the run changes it: agent_node, should_continue and          *)
(* action_node leave state['article'] alone, so every prompt of the run    *)
(* embeds the article that was passed to app.invoke.                       *)
(***************************************************************************)
C15_ArticleInv ==
    /\ pc = "running" => (state.article = calls.input /\ state.article = session_article)
    /\ calls.agent >= 1 => calls.prompts = {calls.input}
    /\ runs >= 1 => calls.input # << >>

C15_ArticleImmutable ==
    /\ []C15_ArticleInv
    /\ [][pc = "running" => state'.article = state.article]_vars

C15_Witness ==
    /\ pc = "running"
    /\ calls.agent = 2
    /\ calls.fetch = 2
    /\ calls.input = ArtSearch
    /\ calls.prompts = {ArtSearch}

(***************************************************************************)
(* C16: pressing Analyze Article with an empty article only shows an       *)
(* error: no run starts, neither service is called, and chat_history and   *)
(* the stored article stay as they were.                                   *)
(***************************************************************************)
C16_EmptyArticleRejected ==
    [][(pc = "idle" /\ notice' = EmptyArticleNotice) =>
          /\ pc' = "idle"
          /\ runs' = runs
          /\ node' = node
          /\ calls' = calls
          /\ state' = state
          /\ result' = result /\ outcome' = outcome
          /\ chat_history' = chat_history
          /\ session_article' = session_article]_vars

C16_Witness ==
    /\ notice = EmptyArticleNotice
    /\ session_article = ArtCards
    /\ Len(chat_history) = 1
    /\ runs = 1

(***************************************************************************)
(* C17: every run starts with an empty message sequence, yet whenever      *)
(* should_continue or action_node is about to read messages[-1] the        *)
(* sequence is non-empty and its last element is an AIMessage: no read     *)
(* past the end of the list, no query taken from a FunctionMessage.        *)
(***************************************************************************)
C17_LastIsGeneratedWhenRead ==
    /\ (pc = "running" /\ node \in {"router", "action"}) =>
          /\ state.messages # << >>
          /\ IsAIMessage(state.messages[Len(state.messages)])
          /\ state.messages[Len(state.messages)].content = calls.last_text
    /\ (pc = "running" /\ calls.agent = 0) => (state.messages = << >> /\ node = "agent")
    /\ calls.last_node = "action" => calls.query = calls.last_text

C17_Witness ==
    /\ pc = "running"
    /\ node = "action"
    /\ calls.fetch = 1
    /\ calls.agent = 2
    /\ state.messages = <<AIMessage(TxtMixed)>>

====
